---- MODULE Spec2Model ----
(***************************************************************************)
(* A model of the brain tumor classifier's orchestration code:             *)
(*   train_model.py  dataset indexing, stratified split, epoch runner,     *)
(*                   best-checkpoint bookkeeping of main()                 *)
(*   predict.py      the inference runner                                  *)
(*                                                                         *)
(* Python strings are sequences of one-character strings, so that lower(), *)
(* capitalize(), endswith() and replace() are computed and not assumed.    *)
(* Python lists are sequences; a Python index i is the TLA+ index i + 1.   *)
(*                                                                         *)
(* Four specifications share the variables:                                *)
(*   SpecIndex    train_model.main, lines 271-280 (resolve the dataset     *)
(*                root, create the output directories, index the images)   *)
(*   SpecSplit    split_samples on sample lists as the indexer makes them  *)
(*   Spec         train_model.main, lines 312-382 (the training loop with  *)
(*                run_epoch, the checkpoint and the plots)                 *)
(*   SpecPredict  predict.main                                             *)
(***************************************************************************)
EXTENDS Integers, Sequences, FiniteSets, TLC

VARIABLES
    pc,             \* position of the running script
    err,            \* the exception that ended the run, "" when none
    \* ---- environment and state of the dataset indexing
    dataset_root,   \* args.dataset_root
    rootKind,       \* what is at each candidate root path
    trainingKind,   \* what is at <root>/Training for each candidate root path
    tree,           \* the class folders of the Training directory
    outDirs0,       \* whether models/ and results/ existed before the run
    modelsDir,      \* whether models/ exists
    resultsDir,     \* whether results/ exists
    resolved,       \* the value of dataset_root in main after resolve_dataset_root
    samples,        \* the indexed (path, label) list
    \* ---- split_samples
    val_split,      \* args.val_split as a fraction <<numerator, denominator>>
    train,          \* splits.train
    val,            \* splits.val
    \* ---- training loop
    epochs,         \* args.epochs
    batch_size,     \* args.batch_size
    n_train,        \* len(train_dataset)
    n_val,          \* len(val_dataset)
    epoch,          \* the loop variable of main
    is_train,       \* run_epoch: optimizer is not None
    batch,          \* run_epoch: number of batches fetched from the loader
    bsize,          \* run_epoch: size of the current batch
    hits,           \* run_epoch: correct predictions in the current batch
    correct,        \* run_epoch: correct
    total,          \* run_epoch: total
    ops,            \* run_epoch: the framework calls made by this call, in order
    params,         \* the model's parameters: the number of updates applied to them
    train_acc,      \* main: train_acc of the current epoch
    val_acc,        \* main: val_acc of the current epoch
    history,        \* main: history["val_acc"]
    best_val_acc,   \* main: best_val_acc
    best_state,     \* main: best_state
    ckptFile,       \* models/brain_tumor_classifier.pth: <<>> or <<its record>>
    saves,          \* how many times this run wrote the checkpoint file
    plots,          \* the plot files written by this run
    \* ---- inference runner
    image,          \* args.image
    imageFiles,     \* the image paths that are regular files
    class_names,    \* predict.main: class_names
    model,          \* predict.main: <<>> or <<the model built>>
    probed,         \* the paths load_image has tested with os.path.isfile
    logits,         \* predict.main: logits of the one forward pass
    pred_idx,       \* predict.main: pred_idx
    predicted_class \* predict.main: predicted_class

idxVars == <<dataset_root, rootKind, trainingKind, tree, outDirs0, modelsDir,
             resultsDir, resolved>>
splitVars == <<val_split, train, val>>
trainVars == <<epochs, batch_size, n_train, n_val, epoch, is_train, batch, bsize,
               hits, correct, total, ops, params, train_acc, val_acc, history,
               best_val_acc, best_state, ckptFile, saves, plots>>
predVars == <<image, imageFiles, class_names, model, probed,
              logits, pred_idx, predicted_class>>
vars == <<pc, err, samples, idxVars, splitVars, trainVars, predVars>>

-----------------------------------------------------------------------------
(* Python str                                                              *)

UpperCase == <<"A", "B", "C", "D", "E", "F", "G", "H", "I", "J", "K", "L", "M",
               "N", "O", "P", "Q", "R", "S", "T", "U", "V", "W", "X", "Y", "Z">>
LowerCase == <<"a", "b", "c", "d", "e", "f", "g", "h", "i", "j", "k", "l", "m",
               "n", "o", "p", "q", "r", "s", "t", "u", "v", "w", "x", "y", "z">>
\* The characters used, in code point order (sorted() compares code points).
CodePoints == <<" ", "-", ".", "/">> \o UpperCase \o <<"_">> \o LowerCase

Ord(c) == CHOOSE i \in 1..Len(CodePoints) : CodePoints[i] = c

LowerChar(c) ==
    IF \E i \in 1..Len(UpperCase) : UpperCase[i] = c
    THEN LowerCase[CHOOSE i \in 1..Len(UpperCase) : UpperCase[i] = c]
    ELSE c

UpperChar(c) ==
    IF \E i \in 1..Len(LowerCase) : LowerCase[i] = c
    THEN UpperCase[CHOOSE i \in 1..Len(LowerCase) : LowerCase[i] = c]
    ELSE c

\* str.lower()
Lower(s) == [i \in 1..Len(s) |-> LowerChar(s[i])]

\* str.capitalize(): first character upper-cased, every other one lower-cased
Capitalize(s) == [i \in 1..Len(s) |-> IF i = 1 THEN UpperChar(s[i]) ELSE LowerChar(s[i])]

\* str.endswith(suffix)
EndsWith(s, suffix) ==
    /\ Len(suffix) <= Len(s)
    /\ \A i \in 1..Len(suffix) : s[Len(s) - Len(suffix) + i] = suffix[i]

\* s < t for Python strings
StrLess(s, t) ==
    \E k \in 1..(Len(t)) :
        /\ k <= Len(s) + 1
        /\ \A i \in 1..(k - 1) : s[i] = t[i]
        /\ \/ k = Len(s) + 1
           \/ (k <= Len(s) /\ Ord(s[k]) < Ord(t[k]))

\* sorted(names) for a set of distinct strings
RECURSIVE Sorted(_)
Sorted(S) ==
    IF S = {} THEN <<>>
    ELSE LET m == CHOOSE x \in S : \A y \in S \ {x} : StrLess(x, y)
         IN  <<m>> \o Sorted(S \ {m})

-----------------------------------------------------------------------------
(* Global constants of train_model.py                                      *)

\* Python's None where a string is expected: no string of characters.
PyNone == <<"None">>

S_glioma == <<"g", "l", "i", "o", "m", "a">>
S_glioma_tumor == <<"g", "l", "i", "o", "m", "a", "_", "t", "u", "m", "o", "r">>
S_meningioma == <<"m", "e", "n", "i", "n", "g", "i", "o", "m", "a">>
S_pituitary == <<"p", "i", "t", "u", "i", "t", "a", "r", "y">>
S_pituitary_tumor == <<"p", "i", "t", "u", "i", "t", "a", "r", "y", "_", "t", "u", "m", "o", "r">>
S_no_tumor == <<"n", "o", "_", "t", "u", "m", "o", "r">>
S_no_dash_tumor == <<"n", "o", "-", "t", "u", "m", "o", "r">>
S_no_space_tumor == <<"n", "o", " ", "t", "u", "m", "o", "r">>
S_notumor == <<"n", "o", "t", "u", "m", "o", "r">>

CLASS_NAMES == <<S_glioma, S_meningioma, S_pituitary, S_no_tumor>>

\* name -> Python index of the name in CLASS_NAMES
CLASS_NAME_TO_IDX(name) == (CHOOSE i \in 1..Len(CLASS_NAMES) : CLASS_NAMES[i] = name) - 1

AliasKeys == {S_glioma, S_glioma_tumor, S_meningioma, S_pituitary, S_pituitary_tumor,
              S_no_tumor, S_no_dash_tumor, S_no_space_tumor, S_notumor}

\* CLASS_ALIASES.get(key): the canonical name, or None
CLASS_ALIASES(key) ==
    IF key \in {S_glioma, S_glioma_tumor} THEN S_glioma
    ELSE IF key = S_meningioma THEN S_meningioma
    ELSE IF key \in {S_pituitary, S_pituitary_tumor} THEN S_pituitary
    ELSE IF key \in {S_no_tumor, S_no_dash_tumor, S_no_space_tumor, S_notumor} THEN S_no_tumor
    ELSE PyNone

ImageExtensions == { <<".", "j", "p", "g">>, <<".", "j", "p", "e", "g">>, <<".", "p", "n", "g">> }

-----------------------------------------------------------------------------
(* The filesystem the training script reads                                *)

MaxEntries == 2         \* directory entries in the class folders of one tree

R_dataset == <<"d", "a", "t", "a", "s", "e", "t">>
R_Dataset == <<"D", "a", "t", "a", "s", "e", "t">>

\* The values of --dataset-root tried, and the paths the script may test.
RootArgs == {R_dataset, R_Dataset}
RootPaths == RootArgs \cup {Capitalize(r) : r \in RootArgs}

Kinds == {"absent", "file", "dir"}

\* Class folder names: one recognised only after lower(), one alias with a
\* blank, one that is in no alias table.
D_Glioma == <<"G", "l", "i", "o", "m", "a">>
D_NoTumor == <<"N", "o", " ", "T", "u", "m", "o", "r">>
D_tumors == <<"t", "u", "m", "o", "r", "s">>
ClassDirPool == {D_Glioma, D_NoTumor, D_tumors}

\* Entries of a class folder: an image with an upper-case extension, a text
\* file, a subdirectory whose name ends in .png, an image.
EntryPool == { [name |-> <<"a", ".", "J", "P", "G">>, kind |-> "file"],
               [name |-> <<"b", ".", "t", "x", "t">>, kind |-> "file"],
               [name |-> <<"c", ".", "p", "n", "g">>, kind |-> "dir"],
               [name |-> <<"d", ".", "j", "p", "e", "g">>, kind |-> "file"] }

\* os.listdir order is the directory's own: a listing is a sequence of
\* distinct entries.
Listings ==
    UNION { { l \in [1..n -> EntryPool] : \A i, j \in 1..n : i # j => l[i] # l[j] }
            : n \in 0..MaxEntries }

FolderStates ==
    { [kind |-> "absent", listing |-> <<>>], [kind |-> "file", listing |-> <<>>] }
    \cup { [kind |-> "dir", listing |-> l] : l \in Listings }

RECURSIVE SumLen(_, _)
SumLen(t, S) ==
    IF S = {} THEN 0
    ELSE LET d == CHOOSE x \in S : TRUE
         IN  Len(t[d].listing) + SumLen(t, S \ {d})

Trees == { t \in [ClassDirPool -> FolderStates] : SumLen(t, ClassDirPool) <= MaxEntries }

EmptyTree == [d \in ClassDirPool |-> [kind |-> "absent", listing |-> <<>>]]

\* os.path.isdir(path) for a candidate root path
IsDir(path) == rootKind[path] = "dir"

\* os.path.isdir(os.path.join(root, "Training"))
IsTrainingDir(root) == trainingKind[root] = "dir"

-----------------------------------------------------------------------------
(* train_model.py: resolve_dataset_root, ensure_directories,               *)
(* collect_image_samples                                                   *)

\* resolve_dataset_root without the fallback to the capitalized path
resolve_dataset_root_NoFallback(root) ==
    IF IsDir(root) THEN [raised |-> "", path |-> root]
    ELSE [raised |-> "FileNotFoundError", path |-> PyNone]

\* [raised |-> the exception or "", path |-> the path returned]
resolve_dataset_root(root) ==
    IF IsDir(root) THEN [raised |-> "", path |-> root]
    ELSE LET alt == Capitalize(root)
         IN  IF IsDir(alt) THEN [raised |-> "", path |-> alt]
             ELSE [raised |-> "FileNotFoundError", path |-> PyNone]

\* the extension test without lower()
filename_matches_CaseSensitive(filename) ==
    \E ext \in ImageExtensions : EndsWith(filename, ext)

\* filename.lower().endswith((".jpg", ".jpeg", ".png"))
filename_matches(filename) ==
    \E ext \in ImageExtensions : EndsWith(Lower(filename), ext)

\* The inner loop: one sample for each entry of the listing whose name matches.
RECURSIVE collect_folder(_, _, _)
collect_folder(listing, full_path, label_idx) ==
    IF listing = <<>> THEN <<>>
    ELSE (IF filename_matches(Head(listing).name)
          THEN << <<Append(full_path, Head(listing).name), label_idx>> >>
          ELSE <<>>)
         \o collect_folder(Tail(listing), full_path, label_idx)

\* The outer loop over sorted(os.listdir(training_dir)).
RECURSIVE collect_class_dirs(_, _, _)
collect_class_dirs(class_dirs, training_dir, t) ==
    IF class_dirs = <<>> THEN <<>>
    ELSE LET class_dir == Head(class_dirs)
             full_path == Append(training_dir, class_dir)
             normalized_name == CLASS_ALIASES(Lower(class_dir))
             rest == collect_class_dirs(Tail(class_dirs), training_dir, t)
         IN  IF t[class_dir].kind # "dir" THEN rest
             ELSE IF normalized_name = PyNone THEN rest
             ELSE collect_folder(t[class_dir].listing, full_path,
                                 CLASS_NAME_TO_IDX(normalized_name)) \o rest

\* [raised |-> the exception or "", samples |-> the list returned]
collect_image_samples(root) ==
    LET training_dir == <<root, "Training">>
        listed == { d \in ClassDirPool : tree[d].kind # "absent" }
        found == collect_class_dirs(Sorted(listed), training_dir, tree)
    IN  IF ~IsTrainingDir(root)
        THEN [raised |-> "FileNotFoundError", samples |-> <<>>]
        ELSE IF found = <<>>
        THEN [raised |-> "RuntimeError", samples |-> <<>>]
        ELSE [raised |-> "", samples |-> found]

\* os.makedirs(path, exist_ok=True)
makedirs(kind) == "dir"

\* the values the other specifications' variables keep in this one
SplitIdle == val_split = <<1, 2>> /\ train = <<>> /\ val = <<>>

TrainIdle ==
    /\ epochs = 0 /\ batch_size = 1 /\ n_train = 1 /\ n_val = 1 /\ epoch = 0
    /\ is_train = FALSE /\ batch = 0 /\ bsize = 0 /\ hits = 0 /\ correct = 0
    /\ total = 0 /\ ops = <<>> /\ params = 0 /\ train_acc = <<0, 1>>
    /\ val_acc = <<0, 1>> /\ history = <<>> /\ best_val_acc = <<0, 1>>
    /\ best_state = "None" /\ ckptFile = <<>> /\ saves = 0 /\ plots = {}

PredIdle ==
    /\ image = <<>> /\ imageFiles = {}
    /\ class_names = <<>> /\ model = <<>> /\ probed = <<>> /\ logits = <<>>
    /\ pred_idx = -1 /\ predicted_class = PyNone

IndexIdle ==
    /\ dataset_root = R_dataset
    /\ rootKind = [p \in RootPaths |-> "absent"]
    /\ trainingKind = [p \in RootPaths |-> "absent"]
    /\ tree = EmptyTree
    /\ outDirs0 = "dir" /\ modelsDir = "dir" /\ resultsDir = "dir"
    /\ resolved = PyNone

InitIndex ==
    /\ pc = "resolve"
    /\ err = ""
    /\ dataset_root \in RootArgs
    /\ rootKind \in [RootPaths -> Kinds]
    /\ trainingKind \in [RootPaths -> Kinds]
    /\ \A p \in RootPaths : trainingKind[p] # "absent" => rootKind[p] = "dir"
    \* a path the script never tests holds nothing
    /\ \A p \in RootPaths \ {dataset_root, Capitalize(dataset_root)} :
          rootKind[p] = "absent"
    /\ tree \in Trees
    /\ (tree # EmptyTree) => (\E p \in RootPaths : trainingKind[p] = "dir")
    /\ outDirs0 \in {"absent", "dir"}
    /\ modelsDir = outDirs0
    /\ resultsDir = outDirs0
    /\ resolved = PyNone
    /\ samples = <<>>
    /\ SplitIdle /\ TrainIdle /\ PredIdle

\* main, line 274
ResolveDatasetRoot ==
    /\ pc = "resolve"
    /\ LET r == resolve_dataset_root(dataset_root)
       IN  IF r.raised = "FileNotFoundError"
           THEN /\ pc' = "error"
                /\ err' = "FileNotFoundError: dataset directory"
                /\ UNCHANGED resolved
           ELSE /\ pc' = "ensure"
                /\ resolved' = r.path
                /\ UNCHANGED err
    /\ UNCHANGED <<dataset_root, rootKind, trainingKind, tree, outDirs0, modelsDir,
                   resultsDir, samples, splitVars, trainVars, predVars>>

\* main, lines 276-277
EnsureDirectories ==
    /\ pc = "ensure"
    /\ modelsDir' = makedirs(modelsDir)
    /\ resultsDir' = makedirs(resultsDir)
    /\ pc' = "collect"
    /\ UNCHANGED <<err, dataset_root, rootKind, trainingKind, tree, outDirs0,
                   resolved, samples, splitVars, trainVars, predVars>>

\* main, lines 279-280
CollectImageSamples ==
    /\ pc = "collect"
    /\ LET r == collect_image_samples(resolved)
       IN  IF r.raised = "FileNotFoundError"
           THEN /\ pc' = "error"
                /\ err' = "FileNotFoundError: Training directory"
                /\ UNCHANGED samples
           ELSE IF r.raised = "RuntimeError"
           THEN /\ pc' = "error"
                /\ err' = "RuntimeError: no training images"
                /\ UNCHANGED samples
           ELSE /\ pc' = "collected"
                /\ samples' = r.samples
                /\ UNCHANGED err
    /\ UNCHANGED <<idxVars, splitVars, trainVars, predVars>>

NextIndex == ResolveDatasetRoot \/ EnsureDirectories \/ CollectImageSamples

SpecIndex == InitIndex /\ [][NextIndex]_vars

-----------------------------------------------------------------------------
(* Properties of the dataset indexing (SpecIndex)                          *)

\* The class folders that are directories with a name in the alias table.
RecognizedDirs ==
    { d \in ClassDirPool : tree[d].kind = "dir" /\ Lower(d) \in AliasKeys }

HasImageExtension(name) ==
    \E ext \in ImageExtensions : EndsWith(Lower(name), ext)

\* The (path, label) pairs of the entries with an image extension in the
\* recognised class folders under root.
ExpectedSamples(root) ==
    LET recognized == RecognizedDirs
    IN  { << <<root, "Training", x[1], tree[x[1]].listing[x[2]].name>>,
             CLASS_NAME_TO_IDX(CLASS_ALIASES(Lower(x[1]))) >> :
          x \in { y \in recognized \X (1..MaxEntries) :
                     /\ y[2] <= Len(tree[y[1]].listing)
                     /\ HasImageExtension(tree[y[1]].listing[y[2]].name) } }

NImages(root) == Cardinality(ExpectedSamples(root))

SampleSet == { samples[i] : i \in 1..Len(samples) }

CollectReturned == pc = "collected"
CollectRaisedEmpty == pc = "error" /\ err = "RuntimeError: no training images"

\* C4: every fatal condition of the training run ends it with the filesystem
\* unchanged: models/ and results/ are as they were before the run.
C4_FatalBeforeSideEffects ==
    pc = "error" => (modelsDir = outDirs0 /\ resultsDir = outDirs0)

\* C5 as stated: on every tree the indexer is run on it returns exactly N
\* pairs, N the number of image-named entries of the recognised class folders.
C5_ReturnsExactlyN ==
    (CollectReturned \/ CollectRaisedEmpty) =>
        (CollectReturned /\ Len(samples) = NImages(resolved))

\* C5 amended: with N >= 1 image-named entries in the recognised class folders
\* the indexer returns exactly N pairs, one per entry, each labelled with the
\* index in 0..3 of the canonical class of its folder's alias, and none from a
\* folder outside the alias table; with N = 0 it raises the empty-dataset
\* error and returns nothing.
C5_ReturnsNOrRaisesEmpty ==
    /\ CollectReturned =>
         /\ LET expected == ExpectedSamples(resolved)
            IN  /\ Cardinality(expected) >= 1
                /\ Len(samples) = Cardinality(expected)
                /\ SampleSet = expected
         /\ \A i \in 1..Len(samples) :
              /\ samples[i][2] \in 0..3
              /\ Lower(samples[i][1][3]) \in AliasKeys
              /\ CLASS_NAMES[samples[i][2] + 1] = CLASS_ALIASES(Lower(samples[i][1][3]))
    /\ CollectRaisedEmpty => NImages(resolved) = 0

\* A recognised folder and an unrecognised folder both hold
\* an image; the indexer returned the recognised one only.
C5_Witness ==
    /\ CollectReturned
    /\ tree[D_tumors].kind = "dir"
    /\ \E i \in 1..Len(tree[D_tumors].listing) :
         HasImageExtension(tree[D_tumors].listing[i].name)
    /\ \E i \in 1..Len(samples) : samples[i][1][3] = D_NoTumor /\ samples[i][2] = 3

\* The root the claim resolves: the path given if it is a directory, else its
\* capitalization variant if that is a directory.
RootAfterRetry ==
    IF rootKind[dataset_root] = "dir" THEN dataset_root
    ELSE IF rootKind[Capitalize(dataset_root)] = "dir" THEN Capitalize(dataset_root)
    ELSE PyNone

DirectoryMissing ==
    \/ RootAfterRetry = PyNone
    \/ trainingKind[RootAfterRetry] # "dir"

\* C6: the indexing ends with a missing-directory error exactly when the root
\* (after the one retry with the capitalized path) or its Training directory
\* is absent, with the empty-dataset error exactly when both exist and no
\* image is found in the recognised class folders, and otherwise returns a
\* non-empty list.
C6_IndexerErrors ==
    pc \in {"error", "collected"} =>
        LET missing == DirectoryMissing
            found == IF missing THEN 0 ELSE NImages(RootAfterRetry)
        IN  /\ (pc = "error" /\ err \in {"FileNotFoundError: dataset directory",
                                         "FileNotFoundError: Training directory"})
                 <=> missing
            /\ CollectRaisedEmpty <=> (~missing /\ found = 0)
            /\ CollectReturned <=> (~missing /\ found >= 1)
            /\ CollectReturned => samples # <<>>

\* The retry found the capitalized root, whose Training directory holds only
\* an unrecognised folder with an image: the empty-dataset error.
C6_Witness ==
    /\ CollectRaisedEmpty
    /\ resolved # dataset_root
    /\ tree[D_tumors].kind = "dir"
    /\ \E i \in 1..Len(tree[D_tumors].listing) :
         HasImageExtension(tree[D_tumors].listing[i].name)

-----------------------------------------------------------------------------
(* train_model.py: split_samples                                           *)
(*                                                                         *)
(* train_test_split is scikit-learn's; it is modelled by what it does when *)
(* called as in lines 159-165 (test_size a float, stratify given, shuffle):*)
(* n_test = ceil(test_size * n), n_train = n - n_test; ValueError if the   *)
(* test size is not in (0, 1), if n_train = 0, if a class has fewer than 2 *)
(* members, or if n_train or n_test is below the number of classes; each   *)
(* class gives its share of a random permutation of its members to train   *)
(* (largest remainders first) and the rest to test; both index lists are   *)
(* shuffled. The seed's random draws are nondeterministic choices.         *)

MaxSamples == 4         \* samples in a list given to split_samples

ValSplits == { <<1, 5>>, <<1, 4>>, <<1, 2>> }   \* 0.2 (the default), 0.25, 0.5

\* Sample lists as collect_image_samples returns them: paths pairwise
\* distinct, labels in 0..3 (file names are numbered here).
SampleLists ==
    UNION { { [i \in 1..n |-> << <<R_dataset, "Training", CLASS_NAMES[l[i] + 1], i>>, l[i] >>]
              : l \in [1..n -> 0..3] }
            : n \in 1..MaxSamples }

CeilDiv(a, b) == (a + b - 1) \div b

RECURSIVE SumOver(_, _)
SumOver(f, S) ==
    IF S = {} THEN 0
    ELSE LET x == CHOOSE y \in S : TRUE IN f[x] + SumOver(f, S \ {x})

\* the orders a shuffle can leave the members of S in
Shuffles(S) ==
    { q \in [1..Cardinality(S) -> S] : \A i, j \in 1..Cardinality(S) : i # j => q[i] # q[j] }

\* _approximate_mode(class_counts, n_draws): the floor of each class's
\* proportional share, plus one for the classes with the largest remainders
\* (ties broken at random).
ApproximateModes(counts, n_draws) ==
    LET classes == DOMAIN counts
        n == SumOver(counts, classes)
        floored == [c \in classes |-> (counts[c] * n_draws) \div n]
        remainder == [c \in classes |-> (counts[c] * n_draws) % n]
        need == n_draws - SumOver(floored, classes)
    IN  { [c \in classes |-> floored[c] + add[c]] :
          add \in { a \in [classes -> {0, 1}] :
                       /\ SumOver(a, classes) = need
                       /\ \A c, d \in classes :
                            (a[c] = 1 /\ a[d] = 0) => remainder[c] >= remainder[d] } }

\* [raised |-> the exception or "", results |-> the possible (train, test)]
train_test_split(arr, test_size, stratify) ==
    LET n == Len(arr)
        num_test == CeilDiv(test_size[1] * n, test_size[2])
        num_train == n - num_test
        classes == { stratify[i] : i \in 1..n }
        members == [c \in classes |-> { i \in 1..n : stratify[i] = c }]
        counts == [c \in classes |-> Cardinality(members[c])]
        invalid == \/ ~(0 < test_size[1] /\ test_size[1] < test_size[2])
                   \/ num_train = 0
                   \/ \E c \in classes : counts[c] < 2
                   \/ num_train < Cardinality(classes)
                   \/ num_test < Cardinality(classes)
        \* the index sets: n_i[c] members of class c to train, the others to test
        trainSets == { T \in SUBSET (1..n) :
                         \E n_i \in ApproximateModes(counts, num_train) :
                            \A c \in classes : Cardinality(T \cap members[c]) = n_i[c] }
    IN  IF invalid THEN [raised |-> "ValueError", results |-> {}]
        ELSE [raised |-> "",
              results |-> UNION { { << [k \in 1..Len(p) |-> arr[p[k]]],
                                       [k \in 1..Len(q) |-> arr[q[k]]] >> :
                                    <<p, q>> \in Shuffles(T) \X Shuffles((1..n) \ T) }
                                  : T \in trainSets }]

\* split_samples returning the whole list as the training list
split_samples_TrainIsAll(smpls, vs) ==
    LET labels == [i \in 1..Len(smpls) |-> smpls[i][2]]
        r == train_test_split(smpls, vs, labels)
    IN  [raised |-> r.raised,
         results |-> { [train |-> smpls, val |-> x[2]] : x \in r.results }]

\* [raised |-> the exception or "", results |-> the possible TrainingSamples]
split_samples(smpls, vs) ==
    LET labels == [i \in 1..Len(smpls) |-> smpls[i][2]]
        r == train_test_split(smpls, vs, labels)
    IN  [raised |-> r.raised,
         results |-> { [train |-> x[1], val |-> x[2]] : x \in r.results }]

InitSplit ==
    /\ pc = "split"
    /\ err = ""
    /\ samples \in SampleLists
    /\ val_split \in ValSplits
    /\ train = <<>>
    /\ val = <<>>
    /\ IndexIdle /\ TrainIdle /\ PredIdle

\* main, line 281
SplitSamples ==
    /\ pc = "split"
    /\ LET r == split_samples(samples, val_split)
       IN  IF r.raised # ""
           THEN /\ pc' = "error"
                /\ err' = r.raised
                /\ UNCHANGED <<train, val>>
           ELSE /\ \E splits \in r.results :
                     /\ train' = splits.train
                     /\ val' = splits.val
                /\ pc' = "split_done"
                /\ UNCHANGED err
    /\ UNCHANGED <<samples, val_split, idxVars, trainVars, predVars>>

NextSplit == SplitSamples

SpecSplit == InitSplit /\ [][NextSplit]_vars

-----------------------------------------------------------------------------
(* Properties of split_samples (SpecSplit)                                 *)

Count(seq, x) == Cardinality({ i \in 1..Len(seq) : seq[i] = x })

PathsOf(seq) == { seq[i][1] : i \in 1..Len(seq) }

\* C7: whenever split_samples returns, no sample path is in both lists, and
\* every sample is in the two lists together exactly as often as in the input
\* (no duplicates, no omissions).
C7_SplitIsPartition ==
    pc = "split_done" =>
        /\ PathsOf(train) \cap PathsOf(val) = {}
        /\ \A x \in { samples[i] : i \in 1..Len(samples) }
                 \cup { train[i] : i \in 1..Len(train) }
                 \cup { val[i] : i \in 1..Len(val) } :
              Count(train, x) + Count(val, x) = Count(samples, x)

\* A split of two classes with two samples each: one of each in validation.
C7_Witness ==
    /\ pc = "split_done"
    /\ Len(train) = 2
    /\ Len(val) = 2
    /\ val[1][2] # val[2][2]

-----------------------------------------------------------------------------
(* train_model.py: run_epoch and the training loop of main                 *)
(*                                                                         *)
(* An accuracy is the fraction <<correct, total>>. The parameters of the   *)
(* model are the number of optimizer steps applied to them. Loss values    *)
(* and the training curves decide nothing in main and are not modelled;    *)
(* what the forward pass predicts is a nondeterministic choice.            *)

MaxEpochs == 3          \* --epochs
MaxTrain == 2           \* training samples
MaxVal == 3             \* validation samples
MaxBatch == 2           \* --batch-size

\* a checkpoint left by an earlier run
OldCheckpoint ==
    [model_state_dict |-> [outputs |-> 4, updates |-> 0], class_names |-> CLASS_NAMES, input_size |-> <<3, 224, 224>>,
     best_val_acc |-> <<1, 1>>, epochs_trained |-> 20]

\* len(loader) of a DataLoader over n samples (drop_last is False)
NumBatches(n) == CeilDiv(n, batch_size)

Min(a, b) == IF a <= b THEN a ELSE b

\* best_val_acc starting at the top of the scale
InitialBest_One == <<1, 1>>

\* best_val_acc = 0.0
InitialBest == <<0, 1>>

\* val_acc >= best_val_acc
improved_OrEqual(acc, best) == acc[1] * best[2] >= best[1] * acc[2]

\* val_acc > best_val_acc
improved(acc, best) == acc[1] * best[2] > best[1] * acc[2]

\* the record with args.epochs as epochs_trained
saved_checkpoint_EpochsOfArgs(state, best, ep) ==
    [model_state_dict |-> state, class_names |-> CLASS_NAMES, input_size |-> <<3, 224, 224>>,
     best_val_acc |-> best, epochs_trained |-> epochs]

\* the dictionary given to torch.save (args left out)
saved_checkpoint(state, best, ep) ==
    [model_state_dict |-> state, class_names |-> CLASS_NAMES, input_size |-> <<3, 224, 224>>,
     best_val_acc |-> best, epochs_trained |-> ep]

\* model.state_dict() of the model built with len(CLASS_NAMES) outputs
state_dict == [outputs |-> Len(CLASS_NAMES), updates |-> params]

\* run_epoch going on to backward() whatever the mode
after_loss_Always(isTrain) == "backward"

\* run_epoch, line 206: if is_train
after_loss(isTrain) == IF isTrain THEN "backward" ELSE "accumulate"

Init ==
    /\ pc = "loop"
    /\ err = ""
    /\ epochs \in 0..MaxEpochs
    /\ batch_size \in 1..MaxBatch
    /\ n_train \in 1..MaxTrain
    /\ n_val \in 1..MaxVal
    /\ epoch = 0
    /\ is_train = FALSE /\ batch = 0 /\ bsize = 0 /\ hits = 0
    /\ correct = 0 /\ total = 0 /\ ops = <<>>
    /\ params = 0
    /\ train_acc = <<0, 1>> /\ val_acc = <<0, 1>>
    /\ history = <<>>
    /\ best_val_acc = InitialBest
    /\ best_state = "None"
    /\ ckptFile \in {<<>>, <<OldCheckpoint>>}
    /\ saves = 0
    /\ plots = {}
    /\ samples = <<>>
    /\ IndexIdle /\ SplitIdle /\ PredIdle

runVars == <<is_train, batch, bsize, hits, correct, total, ops>>
mainVars == <<epoch, train_acc, val_acc, history, best_val_acc, best_state, ckptFile,
              saves, plots>>
fixedVars == <<err, samples, epochs, batch_size, n_train, n_val, idxVars, splitVars,
               predVars>>

\* main, line 327: for epoch in epochs_range
MainLoop ==
    /\ pc = "loop"
    /\ IF epoch < epochs
       THEN epoch' = epoch + 1 /\ pc' = "call_train"
       ELSE epoch' = epoch /\ pc' = "result"
    /\ UNCHANGED <<train_acc, val_acc, history, best_val_acc, best_state, ckptFile,
                   saves, plots, params, runVars, fixedVars>>

\* run_epoch, lines 190-195, entered with the optimizer (main, line 329)
CallTrainEpoch ==
    /\ pc = "call_train"
    /\ is_train' = TRUE
    /\ batch' = 0 /\ bsize' = 0 /\ hits' = 0 /\ correct' = 0 /\ total' = 0
    /\ ops' = <<>>
    /\ pc' = "fetch"
    /\ UNCHANGED <<params, mainVars, fixedVars>>

\* run_epoch, lines 190-195, entered with optimizer=None (main, line 337)
CallValEpoch ==
    /\ pc = "call_val"
    /\ is_train' = FALSE
    /\ batch' = 0 /\ bsize' = 0 /\ hits' = 0 /\ correct' = 0 /\ total' = 0
    /\ ops' = <<>>
    /\ pc' = "fetch"
    /\ UNCHANGED <<params, mainVars, fixedVars>>

\* run_epoch, lines 197-201: the next batch of the loader, or the loop's end
FetchBatch ==
    /\ pc = "fetch"
    /\ LET n == IF is_train THEN n_train ELSE n_val
       IN  IF batch < NumBatches(n)
           THEN /\ batch' = batch + 1
                /\ bsize' = Min(batch_size, n - batch * batch_size)
                /\ pc' = IF is_train THEN "zero_grad" ELSE "forward"
           ELSE /\ pc' = "return"
                /\ UNCHANGED <<batch, bsize>>
    /\ UNCHANGED <<is_train, hits, correct, total, ops, params, mainVars, fixedVars>>

\* run_epoch, line 201: optimizer.zero_grad()
ZeroGrad ==
    /\ pc = "zero_grad"
    /\ ops' = Append(ops, "zero_grad")
    /\ pc' = "forward"
    /\ UNCHANGED <<is_train, batch, bsize, hits, correct, total, params, mainVars,
                   fixedVars>>

\* run_epoch, line 203: outputs = model(images); of the bsize predictions
\* that line 211 takes from outputs, any number may be correct
Forward ==
    /\ pc = "forward"
    /\ ops' = Append(ops, "forward")
    /\ hits' \in 0..bsize
    /\ pc' = "loss"
    /\ UNCHANGED <<is_train, batch, bsize, correct, total, params, mainVars, fixedVars>>

\* run_epoch, lines 204-206: loss = criterion(outputs, labels)
Loss ==
    /\ pc = "loss"
    /\ ops' = Append(ops, "loss")
    /\ pc' = after_loss(is_train)
    /\ UNCHANGED <<is_train, batch, bsize, hits, correct, total, params, mainVars,
                   fixedVars>>

\* run_epoch, line 207: loss.backward()
Backward ==
    /\ pc = "backward"
    /\ ops' = Append(ops, "backward")
    /\ pc' = "step"
    /\ UNCHANGED <<is_train, batch, bsize, hits, correct, total, params, mainVars,
                   fixedVars>>

\* run_epoch, line 208: optimizer.step()
Step ==
    /\ pc = "step"
    /\ ops' = Append(ops, "step")
    /\ params' = params + 1
    /\ pc' = "accumulate"
    /\ UNCHANGED <<is_train, batch, bsize, hits, correct, total, mainVars, fixedVars>>

\* run_epoch, lines 210-213
Accumulate ==
    /\ pc = "accumulate"
    /\ correct' = correct + hits
    /\ total' = total + bsize
    /\ hits' = 0
    /\ pc' = "fetch"
    /\ UNCHANGED <<is_train, batch, bsize, ops, params, mainVars, fixedVars>>

\* run_epoch, lines 215-218, and the assignment of its result in main
Return ==
    /\ pc = "return"
    /\ IF total = 0
       THEN /\ pc' = "error"
            /\ err' = "ZeroDivisionError"
            /\ UNCHANGED <<train_acc, val_acc>>
       ELSE /\ IF is_train
               THEN train_acc' = <<correct, total>> /\ val_acc' = val_acc /\ pc' = "call_val"
               ELSE val_acc' = <<correct, total>> /\ train_acc' = train_acc /\ pc' = "epoch_end"
            /\ UNCHANGED err
    /\ UNCHANGED <<epoch, history, best_val_acc, best_state, ckptFile, saves, plots,
                   params, runVars, samples, epochs, batch_size, n_train, n_val,
                   idxVars, splitVars, predVars>>

\* main, lines 346-370: the history, and the checkpoint on a new best
EpochEnd ==
    /\ pc = "epoch_end"
    /\ history' = Append(history, val_acc)
    /\ IF improved(val_acc, best_val_acc)
       THEN /\ best_val_acc' = val_acc
            /\ best_state' = "model.state_dict()"
            /\ ckptFile' = <<saved_checkpoint(state_dict, val_acc, epoch)>>
            /\ saves' = saves + 1
       ELSE UNCHANGED <<best_val_acc, best_state, ckptFile, saves>>
    /\ pc' = "loop"
    /\ UNCHANGED <<epoch, train_acc, val_acc, plots, params, runVars, fixedVars>>

\* main, line 372: the final best-accuracy line
Result ==
    /\ pc = "result"
    /\ pc' = "plot"
    /\ UNCHANGED <<params, runVars, mainVars, fixedVars>>

\* main, lines 375-382
PlotCurves ==
    /\ pc = "plot"
    /\ plots' = {"results/loss_curve.png", "results/accuracy_curve.png"}
    /\ pc' = "done"
    /\ UNCHANGED <<epoch, train_acc, val_acc, history, best_val_acc, best_state,
                   ckptFile, saves, params, runVars, fixedVars>>

Next ==
    \/ MainLoop \/ CallTrainEpoch \/ CallValEpoch
    \/ FetchBatch \/ ZeroGrad \/ Forward \/ Loss \/ Backward \/ Step \/ Accumulate
    \/ Return \/ EpochEnd \/ Result \/ PlotCurves

Spec == Init /\ [][Next]_vars

-----------------------------------------------------------------------------
(* Properties of the training loop (Spec)                                  *)

Greater(a, b) == a[1] * b[2] > b[1] * a[2]
SameFraction(a, b) == a[1] * b[2] = b[1] * a[2]

\* the epochs whose validation accuracy no completed epoch exceeds
BestEpochs ==
    { i \in 1..Len(history) : \A j \in 1..Len(history) : ~Greater(history[j], history[i]) }

FirstBestEpoch == CHOOSE i \in BestEpochs : \A j \in BestEpochs : i <= j

BetweenEpochs == pc \in {"loop", "result", "plot", "done"}

\* C1: the checkpoint file is written only at the end of an epoch whose
\* validation accuracy is strictly greater than the best recorded so far;
\* an epoch with a validation accuracy less than or equal to it writes nothing.
C1_WriteOnlyOnStrictImprovement ==
    [][ (saves' # saves \/ ckptFile' # ckptFile) =>
            (pc = "epoch_end" /\ Greater(val_acc, best_val_acc)) ]_vars

\* The second epoch repeated the first one's positive accuracy: one write.
C1_Witness ==
    /\ pc = "loop"
    /\ epoch = 2
    /\ history[1][1] > 0
    /\ history[2] = history[1]
    /\ saves = 1

\* C2: at the end of every epoch of a run that has written the checkpoint,
\* the file holds the maximum validation accuracy of the epochs completed and
\* the first epoch that reached it.
C2_FileHoldsBestEpoch ==
    (BetweenEpochs /\ saves >= 1) =>
        /\ Len(ckptFile) = 1
        /\ history # <<>>
        /\ SameFraction(ckptFile[1].best_val_acc, history[FirstBestEpoch])
        /\ ckptFile[1].epochs_trained = FirstBestEpoch

\* Three epochs, the best accuracy reached in the second and again in the third.
C2_Witness ==
    /\ pc = "loop"
    /\ epoch = 3
    /\ Greater(history[2], history[1])
    /\ history[1][1] > 0
    /\ history[3] = history[2]
    /\ ckptFile[1].epochs_trained = 2

\* C3 as stated: once the final best-accuracy line is printed, the run has
\* written the checkpoint at least once.
C3_CheckpointWritten ==
    pc \in {"plot", "done"} => saves >= 1

\* C3 amended: a run that completes all its epochs has written the checkpoint
\* exactly when some epoch had a validation accuracy above 0; a run of no
\* epochs, or of epochs that all validate at 0, writes none.
C3_WrittenIffPositiveAccuracy ==
    pc \in {"result", "plot", "done"} =>
        (saves >= 1 <=> \E i \in 1..Len(history) : history[i][1] > 0)

\* Two epochs, the first validating at 0, the second above: written once.
C3_Witness ==
    /\ pc = "plot"
    /\ epochs = 2
    /\ history[1][1] = 0
    /\ history[2][1] > 0
    /\ saves = 1

InRunEpoch ==
    pc \in {"fetch", "zero_grad", "forward", "loss", "backward", "step", "accumulate",
            "return"}

\* the framework calls of one batch, in order
BatchCalls ==
    IF is_train THEN <<"zero_grad", "forward", "loss", "backward", "step">>
    ELSE <<"forward", "loss">>

CountOf(seq, x) == Cardinality({ i \in 1..Len(seq) : seq[i] = x })

\* C9: with an optimizer, run_epoch over B batches makes B parameter updates,
\* one per batch, each batch in the order zero gradients, forward, loss,
\* backward, update; without one it makes no gradient reset, no backward pass
\* and no update, and leaves the parameters as they were.
C9_OneUpdatePerBatch ==
    /\ [](InRunEpoch =>
            /\ \A i \in 1..Len(ops) : ops[i] = BatchCalls[((i - 1) % Len(BatchCalls)) + 1]
            /\ pc = "return" =>
                 /\ batch = NumBatches(IF is_train THEN n_train ELSE n_val)
                 /\ Len(ops) = batch * Len(BatchCalls)
                 /\ CountOf(ops, "step") = (IF is_train THEN batch ELSE 0)
                 /\ CountOf(ops, "zero_grad") = (IF is_train THEN batch ELSE 0)
                 /\ CountOf(ops, "backward") = (IF is_train THEN batch ELSE 0))
    /\ [][ (InRunEpoch /\ ~is_train) => params' = params ]_vars
    /\ [][ params' # params => (params' = params + 1 /\ pc = "step" /\ is_train) ]_vars

\* A validation epoch of two batches returns after a training epoch of two.
C9_Witness ==
    /\ pc = "return"
    /\ ~is_train
    /\ batch = 2
    /\ params = 2
    /\ ops = <<"forward", "loss", "forward", "loss">>

-----------------------------------------------------------------------------
(* predict.py                                                              *)
(*                                                                         *)
(* A checkpoint is the dictionary torch.load returns; its state dictionary *)
(* carries the number of outputs of the classification layer saved.        *)
(* Logits are small integers; softmax is modelled with base 2 in place of  *)
(* e, as the fractions <<2^x_i, sum of 2^x_j>>.                            *)

MaxScore == 2           \* logits range over 0..MaxScore

DEFAULT_CLASS_NAMES == <<S_glioma, S_meningioma, S_pituitary, S_no_tumor>>

\* str.replace(old, new): every non-overlapping occurrence, left to right
StartsWithAt(str, i, old) ==
    /\ i + Len(old) - 1 <= Len(str)
    /\ \A k \in 1..Len(old) : str[i + k - 1] = old[k]

RECURSIVE ReplaceFrom(_, _, _, _)
ReplaceFrom(str, i, old, new) ==
    IF i > Len(str) THEN <<>>
    ELSE IF StartsWithAt(str, i, old)
    THEN new \o ReplaceFrom(str, i + Len(old), old, new)
    ELSE <<str[i]>> \o ReplaceFrom(str, i + 1, old, new)

Replace(str, old, new) == ReplaceFrom(str, 1, old, new)

P_dataset_slash == <<"d", "a", "t", "a", "s", "e", "t", "/">>
P_Dataset_slash == <<"D", "a", "t", "a", "s", "e", "t", "/">>
P_dataset_backslash == <<"d", "a", "t", "a", "s", "e", "t", "\\">>
P_Dataset_backslash == <<"D", "a", "t", "a", "s", "e", "t", "\\">>
P_x_png == <<"x", ".", "p", "n", "g">>

\* the values of --image tried, and the paths that may hold the file
ImageArgs == { P_dataset_slash \o P_x_png, P_Dataset_slash \o P_x_png, P_x_png }
ImagePaths == ImageArgs

\* The checkpoint files tried: as train_model.py writes them, without the
\* class_names field (four outputs, three outputs), and with lists of their own.
PredictCheckpoints ==
    { [model_state_dict |-> [outputs |-> 4, updates |-> 1], class_names |-> CLASS_NAMES,
       input_size |-> <<3, 224, 224>>, best_val_acc |-> <<1, 2>>, epochs_trained |-> 1],
      [model_state_dict |-> [outputs |-> 4, updates |-> 1]],
      [model_state_dict |-> [outputs |-> 3, updates |-> 1]],
      [model_state_dict |-> [outputs |-> 2, updates |-> 1],
       class_names |-> <<S_no_tumor, S_glioma>>],
      [model_state_dict |-> [outputs |-> 4, updates |-> 1],
       class_names |-> <<S_no_tumor, S_pituitary, S_meningioma, S_glioma>>] }

\* the fallback list whatever the checkpoint holds
get_class_names_AlwaysDefault(checkpoint) == DEFAULT_CLASS_NAMES

\* checkpoint.get("class_names", DEFAULT_CLASS_NAMES)
get_class_names(checkpoint) ==
    IF "class_names" \in DOMAIN checkpoint THEN checkpoint.class_names
    ELSE DEFAULT_CLASS_NAMES

\* build_model(num_classes)
build_model(num_classes) == [num_classes |-> num_classes, weights |-> "initial"]

\* the second path being the first one again
alt_path_Same(image_path) == image_path

\* load_image, line 48
alt_path(image_path) ==
    Replace(Replace(image_path, P_dataset_slash, P_Dataset_slash),
            P_dataset_backslash, P_Dataset_backslash)

\* os.path.isfile(path) for an image path
IsFile(path) == path \in imageFiles

RECURSIVE Pow2(_)
Pow2(x) == IF x = 0 THEN 1 ELSE 2 * Pow2(x - 1)

RECURSIVE SumPow2(_, _)
SumPow2(xs, i) == IF i > Len(xs) THEN 0 ELSE Pow2(xs[i]) + SumPow2(xs, i + 1)

\* torch.softmax(logits, dim=1)
softmax(xs) == [i \in 1..Len(xs) |-> <<Pow2(xs[i]), SumPow2(xs, 1)>>]

\* torch.max(probabilities, dim=1): the Python index of the first maximum
argmax(ps) ==
    (CHOOSE i \in 1..Len(ps) :
        /\ \A j \in 1..Len(ps) : ps[j][1] * ps[i][2] <= ps[i][1] * ps[j][2]
        /\ \A j \in 1..(i - 1) : ps[j][1] * ps[i][2] < ps[i][1] * ps[j][2]) - 1

InitPredict ==
    /\ pc = "start"
    /\ err = ""
    /\ ckptFile \in {<<>>} \cup { <<c>> : c \in PredictCheckpoints }
    /\ image \in ImageArgs
    /\ imageFiles \in SUBSET ImagePaths
    /\ class_names = <<>>
    /\ model = <<>>
    /\ probed = <<>>
    /\ logits = <<>>
    /\ pred_idx = -1
    /\ predicted_class = PyNone
    /\ samples = <<>>
    /\ IndexIdle /\ SplitIdle
    /\ epochs = 0 /\ batch_size = 1 /\ n_train = 1 /\ n_val = 1 /\ epoch = 0
    /\ is_train = FALSE /\ batch = 0 /\ bsize = 0 /\ hits = 0 /\ correct = 0
    /\ total = 0 /\ ops = <<>> /\ params = 0 /\ train_acc = <<0, 1>>
    /\ val_acc = <<0, 1>> /\ history = <<>> /\ best_val_acc = <<0, 1>>
    /\ best_state = "None" /\ saves = 0 /\ plots = {}

predFixed == <<samples, idxVars, splitVars, trainVars, image, imageFiles>>

\* predict.main, lines 88-92
CheckModelPath ==
    /\ pc = "start"
    /\ IF ckptFile = <<>>
       THEN pc' = "error" /\ err' = "FileNotFoundError: checkpoint"
       ELSE pc' = "load" /\ err' = err
    /\ UNCHANGED <<class_names, model, probed, logits, pred_idx, predicted_class,
                   predFixed>>

\* predict.main, lines 94-96
LoadCheckpoint ==
    /\ pc = "load"
    /\ class_names' = get_class_names(ckptFile[1])
    /\ model' = <<build_model(Len(class_names'))>>
    /\ pc' = "load_state_dict"
    /\ UNCHANGED <<err, probed, logits, pred_idx, predicted_class, predFixed>>

\* predict.main, lines 97-99: load_state_dict raises when the classification
\* layer saved has another size than the one built
LoadStateDict ==
    /\ pc = "load_state_dict"
    /\ IF ckptFile[1].model_state_dict.outputs # model[1].num_classes
       THEN /\ pc' = "error"
            /\ err' = "RuntimeError: size mismatch"
            /\ UNCHANGED model
       ELSE /\ model' = <<[model[1] EXCEPT !.weights = "loaded"]>>
            /\ pc' = "load_image"
            /\ UNCHANGED err
    /\ UNCHANGED <<class_names, probed, logits, pred_idx, predicted_class, predFixed>>

\* predict.main, lines 101-103, with load_image
LoadImage ==
    /\ pc = "load_image"
    /\ IF IsFile(image)
       THEN /\ probed' = probed \o <<image>>
            /\ pc' = "forward"
            /\ UNCHANGED err
       ELSE /\ probed' = probed \o <<image, alt_path(image)>>
            /\ IF IsFile(alt_path(image))
               THEN pc' = "forward" /\ err' = err
               ELSE pc' = "error" /\ err' = "FileNotFoundError: image"
    /\ UNCHANGED <<class_names, model, logits, pred_idx, predicted_class, predFixed>>

\* predict.main, lines 105-110: the forward pass gives any scores, one per
\* output of the model
PredictForward ==
    /\ pc = "forward"
    /\ logits' \in [1..model[1].num_classes -> 0..MaxScore]
    /\ pred_idx' = argmax(softmax(logits'))
    /\ pc' = "report"
    /\ UNCHANGED <<err, class_names, model, probed, predicted_class, predFixed>>

\* predict.main, lines 115-119
Report ==
    /\ pc = "report"
    /\ predicted_class' = class_names[pred_idx + 1]
    /\ pc' = "done"
    /\ UNCHANGED <<err, class_names, model, probed, logits, pred_idx, predFixed>>

NextPredict ==
    \/ CheckModelPath \/ LoadCheckpoint \/ LoadStateDict \/ LoadImage
    \/ PredictForward \/ Report

SpecPredict == InitPredict /\ [][NextPredict]_vars

-----------------------------------------------------------------------------
(* Properties of the inference runner (SpecPredict)                        *)

\* the class-name list of the checkpoint, or the fixed default list
NamesOfRun ==
    IF "class_names" \in DOMAIN ckptFile[1] THEN ckptFile[1].class_names
    ELSE <<S_glioma, S_meningioma, S_pituitary, S_no_tumor>>

\* C8: the class reported is the name at an index of maximal score in the
\* checkpoint's class-name list, or in the default list when the checkpoint
\* has none; the model has one output per name; with the default order and the
\* highest score at Python index 2 the class reported is pituitary.
C8_PredictedClassIsArgmaxName ==
    pc = "done" =>
        /\ model[1].num_classes = Len(NamesOfRun)
        /\ Len(logits) = Len(NamesOfRun)
        /\ \A j \in 1..Len(logits) : logits[j] <= logits[pred_idx + 1]
        /\ predicted_class = NamesOfRun[pred_idx + 1]
        /\ (/\ NamesOfRun = <<S_glioma, S_meningioma, S_pituitary, S_no_tumor>>
            /\ \A j \in {1, 2, 4} : logits[j] < logits[3])
           => predicted_class = S_pituitary

\* A checkpoint with a class list of its own order, highest score at Python
\* index 2: the name reported is the list's third.
C8_Witness ==
    /\ pc = "done"
    /\ "class_names" \in DOMAIN ckptFile[1]
    /\ ckptFile[1].class_names # CLASS_NAMES
    /\ Len(logits) = 4
    /\ \A j \in {1, 2, 4} : logits[j] < logits[3]
    /\ predicted_class = S_meningioma

\* the path of the fallback retry
RetryPath(path) ==
    Replace(Replace(path, P_dataset_slash, P_Dataset_slash),
            P_dataset_backslash, P_Dataset_backslash)

\* C10: without a checkpoint file the run ends with the checkpoint-not-found
\* error and no image path tested, whether the image exists or not; an image
\* path is tested only with the checkpoint loaded into the model built, and
\* the image-not-found error comes only after the path and its retry variant
\* were both tested and neither is a file.
C10_CheckpointCheckedFirst ==
    /\ (ckptFile = <<>> /\ pc # "start") =>
          (pc = "error" /\ err = "FileNotFoundError: checkpoint" /\ probed = <<>>)
    /\ probed # <<>> =>
          (ckptFile # <<>> /\ model # <<>> /\ model[1].weights = "loaded")
    /\ (pc = "error" /\ err = "FileNotFoundError: image") =>
          /\ probed = <<image, RetryPath(image)>>
          /\ image \notin imageFiles
          /\ RetryPath(image) \notin imageFiles

\* The image error after the retry with the capitalized folder.
C10_Witness ==
    /\ pc = "error"
    /\ err = "FileNotFoundError: image"
    /\ Len(probed) = 2
    /\ probed[1] # probed[2]

====
